---- MODULE Spec2Model ----
(***************************************************************************)
(* Job lifecycle and file-retention engine of the gamerun video optimizer. *)
(*                                                                         *)
(* The upload pipeline, the ffmpeg runner with its progress parser, the    *)
(* retention scheduler and the artifact retrieval route are those of the   *)
(* timer-equipped server (src/unnamed/part_000, lines 25-319); the         *)
(* remote-fetch route POST /api/download is the one of src/server.js.      *)
(* Every await of the code is a suspension point: the action that issues   *)
(* the call ends there and a later action resumes the handler.             *)
(***************************************************************************)
EXTENDS Integers, Sequences, FiniteSets, Bags, TLC

\* ------------------------------------------------------------- bounds
\* Number of GET /api/download/:jobId requests the environment issues.
MaxRetrievals == 2

\* Job identifiers (uuidv4 values); every path of a job is derived from its id.
JobIds == {"j1"}

\* ------------------------------------------------------- program constants
MiB == 1048576

\* The `preset` field of a request body: absent, a catalog name, or another name.
Absent == "<absent>"
PresetInputs == {Absent, "balanced", "efficient", "minimal", "ultra"}

\* Sizes in bytes of an uploaded or fetched file.
Sizes == {300 * MiB, 800 * MiB, 800 * MiB + 1, 2000 * MiB}

\* const presets = { balanced: ..., efficient: ..., minimal: ... }
presets ==
  [balanced  |-> [resolution |-> "1080", fps |-> "30", crf |-> "23",
                  preset |-> "medium", maxSize |-> <<"1", "4", "0", "0", "M">>],
   efficient |-> [resolution |-> "720", fps |-> "30", crf |-> "28",
                  preset |-> "fast", maxSize |-> <<"8", "0", "0", "M">>],
   minimal   |-> [resolution |-> "720", fps |-> "24", crf |-> "32",
                  preset |-> "veryfast", maxSize |-> <<"5", "0", "0", "M">>]]

\* presets[name] is undefined for a name that is no key of the object.
HasConfig(name) == name \in DOMAIN presets

\* const { preset = 'balanced' } = req.body: the default applies to an absent
\* field only.
BodyPreset(p) == IF p = Absent THEN "balanced" ELSE p

Digits == [c \in {"0", "1", "2", "3", "4", "5", "6", "7", "8", "9"} |->
             CASE c = "0" -> 0 [] c = "1" -> 1 [] c = "2" -> 2 [] c = "3" -> 3
               [] c = "4" -> 4 [] c = "5" -> 5 [] c = "6" -> 6 [] c = "7" -> 7
               [] c = "8" -> 8 [] c = "9" -> 9]

\* parseInt(s): the value of the longest prefix of decimal digits (-1 for NaN).
RECURSIVE ParseIntFrom(_, _, _)
ParseIntFrom(s, i, acc) ==
  IF i > Len(s) \/ s[i] \notin DOMAIN Digits
    THEN acc
    ELSE ParseIntFrom(s, i + 1, 10 * acc + Digits[s[i]])

ParseInt(s) ==
  IF Len(s) = 0 \/ s[1] \notin DOMAIN Digits THEN -1 ELSE ParseIntFrom(s, 1, 0)

\* fileSizeMB > maxSizeMB, with fileSizeMB = stats.size / (1024 * 1024): the
\* division by a power of two is exact, so the test is on bytes.
OverCeiling(sizeBytes, config) == sizeBytes > ParseInt(config.maxSize) * MiB

\* The argument values of an ffmpeg invocation that come from the preset.
NoArgs == [invoked |-> FALSE, crf |-> "-", preset |-> "-", resolution |-> "-",
           fps |-> "-", fs |-> <<>>]

FFmpegArgsSwapped(config) ==
  [invoked |-> TRUE, crf |-> config.crf, preset |-> config.preset,
   resolution |-> config.fps, fps |-> config.resolution, fs |-> config.maxSize]

\* '-crf', config.crf, '-preset', config.preset, '-vf', `scale=-2:${config.resolution}`,
\* '-r', config.fps, '-fs', config.maxSize
FFmpegArgs(config) ==
  [invoked |-> TRUE, crf |-> config.crf, preset |-> config.preset,
   resolution |-> config.resolution, fps |-> config.fps, fs |-> config.maxSize]

\* ------------------------------------------------------ progress parser
\* Markers of ffmpeg's diagnostic stream, <<hours, minutes, seconds>>.
NoMark == <<-1, -1, -1>>
DurationMarks == {<<0, 0, 0>>, <<0, 1, 40>>}
TimeMarks == {<<0, 0, 3>>, <<0, 0, 40>>, <<0, 2, 0>>}
Chunks == [dur : DurationMarks \cup {NoMark}, time : TimeMarks \cup {NoMark}]

\* hours * 3600 + minutes * 60 + seconds
Seconds(m) == m[1] * 3600 + m[2] * 60 + m[3]

\* Math.round(x) for x = num / den >= 0, i.e. floor(x + 1/2).
Round(num, den) == (2 * num + den) \div (2 * den)

Min(a, b) == IF a < b THEN a ELSE b

\* The percentage without the cap: Math.round((currentTime / duration) * 100)
ParserProgressUncapped(currentTime, duration) == Round(currentTime * 100, duration)

\* Math.min(Math.round((currentTime / duration) * 100), 99)
ParserProgress(currentTime, duration) == Min(Round(currentTime * 100, duration), 99)

\* let lastProgress = 0
InitialLastProgress == 0


\* ---------------------------------------------------------------- state
VARIABLES
  pc,                 \* position of each job's pipeline handler
  kind,               \* "none", "upload" (POST /api/compress), "remote" (POST /api/download)
  presetName,         \* the preset name the handler works with
  size,               \* size in bytes of the uploaded / fetched file
  inFile,             \* the uploaded input file (upload) or tempFile (remote) exists
  outFile,            \* OUTPUT_DIR/<jobId>.mp4 exists
  jobs,               \* const jobs = new Map()
  activeProcesses,    \* const activeProcesses = new Map() (its key set)
  ff,                 \* the transcoder subprocess of a job and its parser closure
  ffArgs,             \* preset-derived arguments of the job's transcoder invocation
  timers,             \* timers created by setTimeout that have not finished
  fileDeletionTimers, \* const fileDeletionTimers = new Map(): path -> timer id
  nextTimer,          \* identity of the next Timeout object
  retrievals,         \* GET /api/download/:jobId requests in flight (a bag)
  nRetrievals,        \* number of retrieval requests issued so far
  termWrites,         \* history: number of terminal snapshots written per job
  faults,             \* history: the filesystem calls of the job's handler that failed
  response            \* answer of POST /api/download: "none", "ok", "error"

vars == <<pc, kind, presetName, size, inFile, outFile, jobs, activeProcesses, ff,
          ffArgs, timers, fileDeletionTimers, nextTimer, retrievals, nRetrievals,
          termWrites, faults, response>>

\* A path of the output directory is identified with the job id it is built from.
OutputPath(jobId) == jobId

\* jobs.get(id) of an id that is no key.
NoJobEntry == [status |-> "absent", progress |-> 0]

\* fileDeletionTimers.get(path) of a path that is no key.
NoTimer == 0

NoProcess == [st |-> "none", opened |-> FALSE, duration |-> 0,
              lastProgress |-> InitialLastProgress]

Init ==
  /\ pc = [j \in JobIds |-> "idle"]
  /\ kind = [j \in JobIds |-> "none"]
  /\ presetName = [j \in JobIds |-> Absent]
  /\ size = [j \in JobIds |-> 0]
  /\ inFile = [j \in JobIds |-> FALSE]
  /\ outFile = [j \in JobIds |-> FALSE]
  /\ jobs = [j \in JobIds |-> NoJobEntry]
  /\ activeProcesses = {}
  /\ ff = [j \in JobIds |-> NoProcess]
  /\ ffArgs = [j \in JobIds |-> NoArgs]
  /\ timers = {}
  /\ fileDeletionTimers = [j \in JobIds |-> NoTimer]
  /\ nextTimer = 1
  /\ retrievals = EmptyBag
  /\ nRetrievals = 0
  /\ termWrites = [j \in JobIds |-> 0]
  /\ faults = [j \in JobIds |-> {}]
  /\ response = [j \in JobIds |-> "none"]

\* The record of failed filesystem calls after a call that failed or not.
Failed(fs, call, failed) == IF failed THEN fs \cup {call} ELSE fs

\* ------------------------------------------------------- job snapshots
\* jobs.set(jobId, { status: 'processing', progress: 0, inputFile, preset })
ProcessingSnapshot == [status |-> "processing", progress |-> 0]

\* jobs.set(jobId, { ...jobs.get(jobId), status: 'compressing', progress: 5 })
CompressingSnapshot(job) == [job EXCEPT !.status = "compressing", !.progress = 5]

\* jobs.set(jobId, { status: 'complete', progress: 100, downloadUrl, stats })
CompleteSnapshot == [status |-> "complete", progress |-> 100]

ErrorSnapshotKeepsProgress == [status |-> "error", progress |-> 5]

\* jobs.set(jobId, { status: 'error', progress: 0, error: 'Failed to compress video' })
ErrorSnapshot == [status |-> "error", progress |-> 0]

Terminal(job) == job.status \in {"complete", "error"}
InProgress(job) == job.status \in {"processing", "compressing"}

\* if (job) { jobs.set(jobId, { ...job, progress: progress }) }
ProgressUpdate(job, progress) ==
  IF job = NoJobEntry THEN job ELSE [job EXCEPT !.progress = progress]

\* --------------------------------------------------- retention scheduler
\* const timerId = setTimeout(async () => {...}, delayMs)
NewTimer(filePath, delayMinutes, jobId) ==
  [id |-> nextTimer, path |-> filePath, delay |-> delayMinutes, jobId |-> jobId,
   st |-> "pending"]

\* scheduleFileDeletion: the timer set after setTimeout
TimersAfterSchedule(ts, filePath, delayMinutes, jobId) ==
  ts \cup {NewTimer(filePath, delayMinutes, jobId)}

\* scheduleFileDeletion: fileDeletionTimers.set(filePath, timerId)
TableAfterSchedule(tbl, filePath) == [tbl EXCEPT ![filePath] = nextTimer]

\* cancelFileDeletion: clearTimeout(timerId) stops a timer that has not fired
TimersAfterCancel(ts, tbl, filePath) ==
  {t \in ts : ~(t.id = tbl[filePath] /\ t.st = "pending")}

\* cancelFileDeletion: fileDeletionTimers.delete(filePath)
TableAfterCancel(tbl, filePath) == [tbl EXCEPT ![filePath] = NoTimer]

\* A pending timer (armed, neither fired nor cancelled).
Pending(filePath) == {t \in timers : t.path = filePath /\ t.st = "pending"}

\* setTimeout(f, delayMs) runs f once delayMs have elapsed: a timer armed earlier
\* with a delay that is not longer has the earlier deadline and runs first.
MayFire(t) ==
  /\ t.st = "pending"
  /\ \A u \in timers : ~(u.st = "pending" /\ u.id < t.id /\ u.delay <= t.delay)


\* ------------------------------------------------- POST /api/compress
\* if (!req.file) return res.status(400)...: no job is created.
RejectUpload(j) ==
  /\ pc[j] = "idle"
  /\ UNCHANGED vars

\* spawnFFmpeg up to its listeners: the executor reads config.crf and the other
\* fields (a TypeError for an undefined config rejects the promise), spawns ffmpeg
\* and registers it in activeProcesses.
SpawnedProcess == [st |-> "running", opened |-> FALSE, duration |-> 0,
                   lastProgress |-> InitialLastProgress]

\* The handler and the synchronous prefix of processCompressionJob, which runs in
\* the same tick: the job is registered, set to compressing and ffmpeg is spawned.
SubmitUpload(j, p, sz) ==
  /\ pc[j] = "idle"
  /\ kind' = [kind EXCEPT ![j] = "upload"]
  /\ presetName' = [presetName EXCEPT ![j] = BodyPreset(p)]
  /\ size' = [size EXCEPT ![j] = sz]
  /\ inFile' = [inFile EXCEPT ![j] = TRUE]
  /\ jobs' = [jobs EXCEPT ![j] = CompressingSnapshot(ProcessingSnapshot)]
  /\ IF HasConfig(BodyPreset(p))
       THEN /\ ff' = [ff EXCEPT ![j] = SpawnedProcess]
            /\ ffArgs' = [ffArgs EXCEPT ![j] = FFmpegArgs(presets[BodyPreset(p)])]
            /\ activeProcesses' = activeProcesses \cup {j}
            /\ pc' = [pc EXCEPT ![j] = "ffmpeg"]
       ELSE \* rejected promise: the catch block runs and awaits fs.unlink
            /\ pc' = [pc EXCEPT ![j] = "catch"]
            /\ UNCHANGED <<ff, ffArgs, activeProcesses>>
  /\ UNCHANGED <<outFile, timers, fileDeletionTimers, nextTimer, retrievals,
                 nRetrievals, termWrites, faults, response>>

\* ------------------------------------------------------------ spawnFFmpeg
\* The stderr stream delivers data until the child's 'close' event, which is
\* emitted after the stdio streams have closed.
StderrOpenAfterExit(j) == ff[j].st \in {"running", "closed"}

StderrOpen(j) == ff[j].st = "running"

\* duration after the chunk: set from the first Duration marker seen while it is 0
DurationAfter(p, chunk) ==
  IF p.duration = 0 /\ chunk.dur # NoMark THEN Seconds(chunk.dur) ELSE p.duration

\* the chunk carries an elapsed-time marker, the duration is known, and the
\* percentage exceeds the last one emitted
Emits(p, chunk) ==
  /\ chunk.time # NoMark
  /\ DurationAfter(p, chunk) > 0
  /\ ParserProgress(Seconds(chunk.time), DurationAfter(p, chunk)) > p.lastProgress

\* ffmpeg.stderr.on('data', ...)
FFmpegData(j, chunk) ==
  /\ kind[j] = "upload"
  /\ StderrOpen(j)
  /\ LET d == DurationAfter(ff[j], chunk)
         progress == ParserProgress(Seconds(chunk.time), d)
     IN IF Emits(ff[j], chunk)
          THEN /\ ff' = [ff EXCEPT ![j].duration = d, ![j].lastProgress = progress]
               /\ jobs' = [jobs EXCEPT ![j] = ProgressUpdate(jobs[j], progress)]
          ELSE /\ ff' = [ff EXCEPT ![j].duration = d]
               /\ UNCHANGED jobs
  /\ UNCHANGED <<pc, kind, presetName, size, inFile, outFile, activeProcesses,
                 ffArgs, timers, fileDeletionTimers, nextTimer, retrievals,
                 nRetrievals, termWrites, faults, response>>

\* The transcoder creates its output file (-y outputFile) while it runs.
FFmpegOpenOutput(j) ==
  /\ ff[j].st = "running"
  /\ ~ff[j].opened
  /\ ff' = [ff EXCEPT ![j].opened = TRUE]
  /\ outFile' = [outFile EXCEPT ![OutputPath(j)] = TRUE]
  /\ UNCHANGED <<pc, kind, presetName, size, inFile, jobs, activeProcesses,
                 ffArgs, timers, fileDeletionTimers, nextTimer, retrievals,
                 nRetrievals, termWrites, faults, response>>

\* ffmpeg.on('close', (code) => ...): resolve on code 0, reject otherwise; the
\* awaiting processCompressionJob goes on to fs.stat(inputFile) or to its catch
\* block, which awaits fs.unlink(inputFile).
FFmpegClose(j, code) ==
  /\ kind[j] = "upload"
  /\ pc[j] = "ffmpeg"
  /\ ff[j].st = "running"
  /\ code = 0 => ff[j].opened
  /\ activeProcesses' = activeProcesses \ {j}
  /\ ff' = [ff EXCEPT ![j].st = "closed"]
  /\ pc' = [pc EXCEPT ![j] = IF code = 0 THEN "statIn" ELSE "catch"]
  /\ UNCHANGED <<kind, presetName, size, inFile, outFile, jobs, ffArgs, timers,
                 fileDeletionTimers, nextTimer, retrievals, nRetrievals,
                 termWrites, faults, response>>

\* ffmpeg.on('error', (err) => ...): the process could not be spawned.
FFmpegError(j) ==
  /\ kind[j] = "upload"
  /\ pc[j] = "ffmpeg"
  /\ ff[j] = SpawnedProcess
  /\ activeProcesses' = activeProcesses \ {j}
  /\ ff' = [ff EXCEPT ![j].st = "closed"]
  /\ pc' = [pc EXCEPT ![j] = "catch"]
  /\ UNCHANGED <<kind, presetName, size, inFile, outFile, jobs, ffArgs, timers,
                 fileDeletionTimers, nextTimer, retrievals, nRetrievals,
                 termWrites, faults, response>>

\* ------------------------------------------------- processCompressionJob
\* const inputStats = await fs.stat(inputFile)
StatInput(j, fault) ==
  /\ pc[j] = "statIn"
  /\ faults' = [faults EXCEPT ![j] = Failed(@, "statInput", fault)]
  /\ pc' = [pc EXCEPT ![j] = IF fault \/ ~inFile[j] THEN "catch" ELSE "statOut"]
  /\ UNCHANGED <<kind, presetName, size, inFile, outFile, jobs, activeProcesses,
                 ff, ffArgs, timers, fileDeletionTimers, nextTimer, retrievals,
                 nRetrievals, termWrites, response>>

\* const outputStats = await fs.stat(outputFile); ...; fs.unlink(inputFile) is called
StatOutput(j, fault) ==
  /\ pc[j] = "statOut"
  /\ faults' = [faults EXCEPT ![j] = Failed(@, "statOutput", fault)]
  /\ pc' = [pc EXCEPT ![j] =
              IF fault \/ ~outFile[OutputPath(j)] THEN "catch" ELSE "unlinkIn"]
  /\ UNCHANGED <<kind, presetName, size, inFile, outFile, jobs, activeProcesses,
                 ff, ffArgs, timers, fileDeletionTimers, nextTimer, retrievals,
                 nRetrievals, termWrites, response>>

\* await fs.unlink(inputFile); scheduleFileDeletion(outputFile, 20, jobId);
\* jobs.set(jobId, { status: 'complete', ... })
UnlinkInput(j, fault) ==
  /\ pc[j] = "unlinkIn"
  /\ faults' = [faults EXCEPT ![j] = Failed(@, "unlinkInput", fault)]
  /\ IF fault
       THEN /\ pc' = [pc EXCEPT ![j] = "catch"]
            /\ UNCHANGED <<inFile, timers, fileDeletionTimers, nextTimer, jobs,
                           termWrites>>
       ELSE /\ inFile' = [inFile EXCEPT ![j] = FALSE]
            /\ timers' = TimersAfterSchedule(timers, OutputPath(j), 20, j)
            /\ fileDeletionTimers' = TableAfterSchedule(fileDeletionTimers, OutputPath(j))
            /\ nextTimer' = nextTimer + 1
            /\ jobs' = [jobs EXCEPT ![j] = CompleteSnapshot]
            /\ termWrites' = [termWrites EXCEPT ![j] = @ + 1]
            /\ pc' = [pc EXCEPT ![j] = "done"]
  /\ UNCHANGED <<kind, presetName, size, outFile, activeProcesses, ff, ffArgs,
                 retrievals, nRetrievals, response>>

\* The input file after the catch block's try { await fs.unlink(inputFile) } catch {}.
InputLeftByHandler(exists, fault) == exists

InputAfterCatch(exists, fault) == exists /\ fault

\* A catch block that awaits fs.unlink(inputFile) without the inner try: a failed
\* unlink rejects processCompressionJob before jobs.set is reached.
CatchUnlinkUnguarded(j, fault) ==
  /\ pc[j] = "catch"
  /\ inFile' = [inFile EXCEPT ![j] = InputAfterCatch(inFile[j], fault)]
  /\ faults' = [faults EXCEPT ![j] = Failed(@, "catchUnlink", inFile[j] /\ fault)]
  /\ jobs' = [jobs EXCEPT ![j] = IF inFile[j] /\ fault THEN @ ELSE ErrorSnapshot]
  /\ termWrites' = [termWrites EXCEPT ![j] = IF inFile[j] /\ fault THEN @ ELSE @ + 1]
  /\ pc' = [pc EXCEPT ![j] = "done"]
  /\ UNCHANGED <<kind, presetName, size, outFile, activeProcesses, ff, ffArgs,
                 timers, fileDeletionTimers, nextTimer, retrievals, nRetrievals,
                 response>>

\* catch (err): try { await fs.unlink(inputFile) } catch {}; jobs.set(jobId, error)
CatchUnlink(j, fault) ==
  /\ pc[j] = "catch"
  /\ inFile' = [inFile EXCEPT ![j] = InputAfterCatch(inFile[j], fault)]
  /\ faults' = [faults EXCEPT ![j] = Failed(@, "catchUnlink", inFile[j] /\ fault)]
  /\ jobs' = [jobs EXCEPT ![j] = ErrorSnapshot]
  /\ termWrites' = [termWrites EXCEPT ![j] = @ + 1]
  /\ pc' = [pc EXCEPT ![j] = "done"]
  /\ UNCHANGED <<kind, presetName, size, outFile, activeProcesses, ff, ffArgs,
                 timers, fileDeletionTimers, nextTimer, retrievals, nRetrievals,
                 response>>


\* --------------------------------------------- scheduleFileDeletion: fire
\* The timer's callback starts: fs.unlink(filePath) is issued and awaited.
TimerFire(t) ==
  /\ t \in timers
  /\ MayFire(t)
  /\ timers' = (timers \ {t}) \cup {[t EXCEPT !.st = "unlinking"]}
  /\ UNCHANGED <<pc, kind, presetName, size, inFile, outFile, jobs,
                 activeProcesses, ff, ffArgs, fileDeletionTimers, nextTimer,
                 retrievals, nRetrievals, termWrites, faults, response>>

\* The unlink takes effect: the file is removed, is already absent (ENOENT), or
\* the call fails for another reason.
TimerUnlink(t, fault) ==
  /\ t \in timers
  /\ t.st = "unlinking"
  /\ LET result == IF fault THEN "failed"
                   ELSE IF outFile[t.path] THEN "unlinked" ELSE "enoent"
     IN /\ timers' = (timers \ {t}) \cup {[t EXCEPT !.st = result]}
        /\ outFile' = [outFile EXCEPT ![t.path] = @ /\ result # "unlinked"]
  /\ UNCHANGED <<pc, kind, presetName, size, inFile, jobs, activeProcesses, ff,
                 ffArgs, fileDeletionTimers, nextTimer, retrievals, nRetrievals,
                 termWrites, faults, response>>

\* A callback that forgets jobs.delete(jobId).
JobsAfterFireKeepsEntry(js, t) == js

\* The registry after the callback's continuation: if (jobId) jobs.delete(jobId)
\* follows the await inside the try block, so it runs only when unlink succeeded.
JobsAfterFire(js, t) ==
  IF t.st = "unlinked" THEN [js EXCEPT ![t.jobId] = NoJobEntry] ELSE js

\* Likewise fileDeletionTimers.delete(filePath).
TableAfterFire(tbl, t) ==
  IF t.st = "unlinked" THEN [tbl EXCEPT ![t.path] = NoTimer] ELSE tbl

\* The callback resumes after the await and returns.
TimerDone(t) ==
  /\ t \in timers
  /\ t.st \in {"unlinked", "enoent", "failed"}
  /\ timers' = timers \ {t}
  /\ jobs' = JobsAfterFire(jobs, t)
  /\ fileDeletionTimers' = TableAfterFire(fileDeletionTimers, t)
  /\ UNCHANGED <<pc, kind, presetName, size, inFile, outFile, activeProcesses,
                 ff, ffArgs, nextTimer, retrievals, nRetrievals, termWrites,
                 faults, response>>

\* ------------------------------------------- GET /api/download/:jobId
\* The pipeline of the job has reported success for the artifact at this path.
ArtifactComplete(j) == jobs[j].status = "complete" \/ response[j] = "ok"

\* The request arrives and fs.access(filePath) is issued; `found` is its result.
RetrieveStart(j) ==
  /\ nRetrievals < MaxRetrievals
  /\ nRetrievals' = nRetrievals + 1
  /\ retrievals' = retrievals (+) SetToBag(
       {[path |-> OutputPath(j), st |-> "access",
         found |-> outFile[OutputPath(j)], completed |-> FALSE]})
  /\ UNCHANGED <<pc, kind, presetName, size, inFile, outFile, jobs,
                 activeProcesses, ff, ffArgs, timers, fileDeletionTimers,
                 nextTimer, termWrites, faults, response>>

\* catch (err) { res.status(404)... }: the access check failed.
RetrieveNotFound(r) ==
  /\ BagIn(r, retrievals)
  /\ r.st = "access"
  /\ ~r.found
  /\ retrievals' = retrievals (-) SetToBag({r})
  /\ UNCHANGED <<pc, kind, presetName, size, inFile, outFile, jobs,
                 activeProcesses, ff, ffArgs, timers, fileDeletionTimers,
                 nextTimer, nRetrievals, termWrites, faults, response>>

\* cancelFileDeletion(filePath); res.download(filePath, ...) starts the transfer.
\* `found` now tells whether the transfer could open the file; `completed` whether
\* the pipeline had reported success when the retrieval was served.
RetrieveBegin(r) ==
  /\ BagIn(r, retrievals)
  /\ r.st = "access"
  /\ r.found
  /\ timers' = TimersAfterCancel(timers, fileDeletionTimers, r.path)
  /\ fileDeletionTimers' = TableAfterCancel(fileDeletionTimers, r.path)
  /\ retrievals' = (retrievals (-) SetToBag({r})) (+) SetToBag(
       {[r EXCEPT !.st = "transfer", !.found = outFile[r.path],
                  !.completed = ArtifactComplete(r.path)]})
  /\ UNCHANGED <<pc, kind, presetName, size, inFile, outFile, jobs,
                 activeProcesses, ff, ffArgs, nextTimer, nRetrievals, termWrites,
                 faults, response>>

\* The download callback: if (!err) scheduleFileDeletion(filePath, 5, jobId).
\* The transfer fails when the file could not be opened or the client aborts.
RetrieveEnd(r, err) ==
  /\ BagIn(r, retrievals)
  /\ r.st = "transfer"
  /\ ~err => r.found
  /\ retrievals' = retrievals (-) SetToBag({r})
  /\ IF err
       THEN UNCHANGED <<timers, fileDeletionTimers, nextTimer>>
       ELSE /\ timers' = TimersAfterSchedule(timers, r.path, 5, r.path)
            /\ fileDeletionTimers' = TableAfterSchedule(fileDeletionTimers, r.path)
            /\ nextTimer' = nextTimer + 1
  /\ UNCHANGED <<pc, kind, presetName, size, inFile, outFile, jobs,
                 activeProcesses, ff, ffArgs, nRetrievals, termWrites,
                 faults, response>>


\* ------------------------------------------------- POST /api/download
\* if (!url) return res.status(400)...
RejectRemote(j) ==
  /\ pc[j] = "idle"
  /\ UNCHANGED vars

\* The handler up to await execCommand(downloadCmd); building the command reads
\* config.resolution, a TypeError for an undefined config, caught by the handler.
SubmitRemote(j, p) ==
  /\ pc[j] = "idle"
  /\ kind' = [kind EXCEPT ![j] = "remote"]
  /\ presetName' = [presetName EXCEPT ![j] = BodyPreset(p)]
  /\ pc' = [pc EXCEPT ![j] = IF HasConfig(BodyPreset(p)) THEN "fetch" ELSE "rcatch"]
  /\ UNCHANGED <<size, inFile, outFile, jobs, activeProcesses, ff, ffArgs, timers,
                 fileDeletionTimers, nextTimer, retrievals, nRetrievals,
                 termWrites, faults, response>>

\* The downloader exits (or is killed at the timeout of execCommand): on success
\* tempFile holds sz bytes and fs.stat(tempFile) is issued; on failure a partial
\* tempFile may be left and the catch block awaits fs.unlink(tempFile).
FetchDone(j, ok, sz, partial) ==
  /\ pc[j] = "fetch"
  /\ ok => ~partial
  /\ inFile' = [inFile EXCEPT ![j] = ok \/ partial]
  /\ size' = [size EXCEPT ![j] = IF ok THEN sz ELSE @]
  /\ pc' = [pc EXCEPT ![j] = IF ok THEN "rstat" ELSE "rcatch"]
  /\ UNCHANGED <<kind, presetName, outFile, jobs, activeProcesses, ff, ffArgs,
                 timers, fileDeletionTimers, nextTimer, retrievals, nRetrievals,
                 termWrites, faults, response>>

NeedsCompressionAtCeiling(sizeBytes, config) ==
  sizeBytes >= ParseInt(config.maxSize) * MiB

\* if (fileSizeMB > maxSizeMB)
NeedsCompression(sizeBytes, config) == OverCeiling(sizeBytes, config)

\* const stats = await fs.stat(tempFile); then the transcoder is run with
\* execCommand(compressCmd), or fs.rename(tempFile, outputFile) is issued.
RemoteStat(j, fault) ==
  /\ pc[j] = "rstat"
  /\ faults' = [faults EXCEPT ![j] = Failed(@, "statTemp", fault)]
  /\ IF fault \/ ~inFile[j]
       THEN /\ pc' = [pc EXCEPT ![j] = "rcatch"]
            /\ UNCHANGED <<ff, ffArgs>>
       ELSE IF NeedsCompression(size[j], presets[presetName[j]])
         THEN /\ ff' = [ff EXCEPT ![j] = SpawnedProcess]
              /\ ffArgs' = [ffArgs EXCEPT ![j] = FFmpegArgs(presets[presetName[j]])]
              /\ pc' = [pc EXCEPT ![j] = "rffmpeg"]
         ELSE /\ pc' = [pc EXCEPT ![j] = "rrename"]
              /\ UNCHANGED <<ff, ffArgs>>
  /\ UNCHANGED <<kind, presetName, size, inFile, outFile, jobs, activeProcesses,
                 timers, fileDeletionTimers, nextTimer, retrievals, nRetrievals,
                 termWrites, response>>

\* await execCommand(compressCmd) returns; on success fs.unlink(tempFile) is issued.
RemoteFFmpegDone(j, ok) ==
  /\ pc[j] = "rffmpeg"
  /\ ff[j].st = "running"
  /\ ok => ff[j].opened
  /\ ff' = [ff EXCEPT ![j].st = "closed"]
  /\ pc' = [pc EXCEPT ![j] = IF ok THEN "runlink" ELSE "rcatch"]
  /\ UNCHANGED <<kind, presetName, size, inFile, outFile, jobs, activeProcesses,
                 ffArgs, timers, fileDeletionTimers, nextTimer, retrievals,
                 nRetrievals, termWrites, faults, response>>

\* await fs.unlink(tempFile); res.json({ success: true, ... })
RemoteUnlink(j, fault) ==
  /\ pc[j] = "runlink"
  /\ faults' = [faults EXCEPT ![j] = Failed(@, "unlinkTemp", fault)]
  /\ IF fault
       THEN /\ pc' = [pc EXCEPT ![j] = "rcatch"]
            /\ UNCHANGED <<inFile, response>>
       ELSE /\ inFile' = [inFile EXCEPT ![j] = FALSE]
            /\ response' = [response EXCEPT ![j] = "ok"]
            /\ pc' = [pc EXCEPT ![j] = "done"]
  /\ UNCHANGED <<kind, presetName, size, outFile, jobs, activeProcesses, ff,
                 ffArgs, timers, fileDeletionTimers, nextTimer, retrievals,
                 nRetrievals, termWrites>>

\* await fs.rename(tempFile, outputFile); res.json({ success: true, ... })
RemoteRename(j, fault) ==
  /\ pc[j] = "rrename"
  /\ faults' = [faults EXCEPT ![j] = Failed(@, "rename", fault)]
  /\ IF fault
       THEN /\ pc' = [pc EXCEPT ![j] = "rcatch"]
            /\ UNCHANGED <<inFile, outFile, response>>
       ELSE /\ inFile' = [inFile EXCEPT ![j] = FALSE]
            /\ outFile' = [outFile EXCEPT ![OutputPath(j)] = TRUE]
            /\ response' = [response EXCEPT ![j] = "ok"]
            /\ pc' = [pc EXCEPT ![j] = "done"]
  /\ UNCHANGED <<kind, presetName, size, jobs, activeProcesses, ff, ffArgs,
                 timers, fileDeletionTimers, nextTimer, retrievals, nRetrievals,
                 termWrites>>

\* The tempFile after the catch block's try { await fs.unlink(tempFile) } catch {}.
TempAfterCatch(exists, fault) == exists /\ fault

\* catch (err): try { await fs.unlink(tempFile) } catch {}; res.status(500)...
RemoteCatch(j, fault) ==
  /\ pc[j] = "rcatch"
  /\ inFile' = [inFile EXCEPT ![j] = TempAfterCatch(inFile[j], fault)]
  /\ faults' = [faults EXCEPT ![j] = Failed(@, "catchUnlink", inFile[j] /\ fault)]
  /\ response' = [response EXCEPT ![j] = "error"]
  /\ pc' = [pc EXCEPT ![j] = "done"]
  /\ UNCHANGED <<kind, presetName, size, outFile, jobs, activeProcesses, ff,
                 ffArgs, timers, fileDeletionTimers, nextTimer, retrievals,
                 nRetrievals, termWrites>>

\* ------------------------------------------------------- specification
Next ==
  \/ \E j \in JobIds : RejectUpload(j)
  \/ \E j \in JobIds, p \in PresetInputs, sz \in Sizes : SubmitUpload(j, p, sz)
  \/ \E j \in JobIds, chunk \in Chunks : FFmpegData(j, chunk)
  \/ \E j \in JobIds : FFmpegOpenOutput(j)
  \/ \E j \in JobIds, code \in {0, 1} : FFmpegClose(j, code)
  \/ \E j \in JobIds : FFmpegError(j)
  \/ \E j \in JobIds, fault \in BOOLEAN : StatInput(j, fault)
  \/ \E j \in JobIds, fault \in BOOLEAN : StatOutput(j, fault)
  \/ \E j \in JobIds, fault \in BOOLEAN : UnlinkInput(j, fault)
  \/ \E j \in JobIds, fault \in BOOLEAN : CatchUnlink(j, fault)
  \/ \E t \in timers : TimerFire(t)
  \/ \E t \in timers, fault \in BOOLEAN : TimerUnlink(t, fault)
  \/ \E t \in timers : TimerDone(t)
  \/ \E j \in JobIds : RetrieveStart(j)
  \/ \E r \in BagToSet(retrievals) : RetrieveNotFound(r)
  \/ \E r \in BagToSet(retrievals) : RetrieveBegin(r)
  \/ \E r \in BagToSet(retrievals), err \in BOOLEAN : RetrieveEnd(r, err)
  \/ \E j \in JobIds : RejectRemote(j)
  \/ \E j \in JobIds, p \in PresetInputs : SubmitRemote(j, p)
  \/ \E j \in JobIds, ok \in BOOLEAN, sz \in Sizes, partial \in BOOLEAN :
       FetchDone(j, ok, sz, partial)
  \/ \E j \in JobIds, fault \in BOOLEAN : RemoteStat(j, fault)
  \/ \E j \in JobIds, ok \in BOOLEAN : RemoteFFmpegDone(j, ok)
  \/ \E j \in JobIds, fault \in BOOLEAN : RemoteUnlink(j, fault)
  \/ \E j \in JobIds, fault \in BOOLEAN : RemoteRename(j, fault)
  \/ \E j \in JobIds, fault \in BOOLEAN : RemoteCatch(j, fault)

Spec == Init /\ [][Next]_vars

\* ------------------------------------------- specification with fairness
\* Identities of the Timeout objects a run can create: one per completed upload
\* and one per retrieval.
TimerIds == 1..(MaxRetrievals + Cardinality(JobIds))

\* Steps the runtime is bound to take.
\*  - A filesystem promise settles and the event loop resumes the handler that
\*    awaits it (fs.stat, fs.unlink, fs.rename, fs.access).
\*  - execCommand runs its child with exec(command, { timeout }): the child is
\*    killed when the timeout elapses, so the awaited promise always settles.
\*  - A timer created by setTimeout runs its callback, and the callback's unlink
\*    settles.
\*  - A transfer started by res.download ends, with or without an error.
\* No step of the ffmpeg child started by spawnFFmpeg is bound to happen: spawn
\* is called without a timeout and nothing in the code kills the child.
Fairness ==
  /\ \A j \in JobIds :
       /\ WF_vars(\E fault \in BOOLEAN : StatInput(j, fault))
       /\ WF_vars(\E fault \in BOOLEAN : StatOutput(j, fault))
       /\ WF_vars(\E fault \in BOOLEAN : UnlinkInput(j, fault))
       /\ WF_vars(\E fault \in BOOLEAN : CatchUnlink(j, fault))
       /\ WF_vars(\E ok \in BOOLEAN, sz \in Sizes, partial \in BOOLEAN :
                    FetchDone(j, ok, sz, partial))
       /\ WF_vars(\E fault \in BOOLEAN : RemoteStat(j, fault))
       /\ WF_vars(\E ok \in BOOLEAN : RemoteFFmpegDone(j, ok))
       /\ WF_vars(\E fault \in BOOLEAN : RemoteUnlink(j, fault))
       /\ WF_vars(\E fault \in BOOLEAN : RemoteRename(j, fault))
       /\ WF_vars(\E fault \in BOOLEAN : RemoteCatch(j, fault))
  /\ \A i \in TimerIds :
       /\ WF_vars(\E t \in timers : t.id = i /\ TimerFire(t))
       /\ WF_vars(\E t \in timers, fault \in BOOLEAN :
                    t.id = i /\ TimerUnlink(t, fault))
       /\ WF_vars(\E t \in timers : t.id = i /\ TimerDone(t))
  /\ WF_vars(\E r \in BagToSet(retrievals) : RetrieveNotFound(r))
  /\ WF_vars(\E r \in BagToSet(retrievals) : RetrieveBegin(r))
  /\ WF_vars(\E r \in BagToSet(retrievals), err \in BOOLEAN : RetrieveEnd(r, err))

FairSpec == Spec /\ Fairness


\* ================================================================ claims
Config(j) == presets[presetName[j]]

\* The transcoder invocation of job j carries the resolution, frame rate and
\* quality of config.
InvokedWith(j, config) ==
  /\ ffArgs[j].invoked
  /\ ffArgs[j].resolution = config.resolution
  /\ ffArgs[j].fps = config.fps
  /\ ffArgs[j].crf = config.crf

\* C1: for every file path at most one deletion timer is pending at any instant.
C1_AtMostOnePendingTimer ==
  \A j \in JobIds : Cardinality(Pending(OutputPath(j))) <= 1

\* C2: at most one terminal snapshot (complete or error) is written per job, a
\* finished upload pipeline has written exactly one, and once a job's snapshot is
\* terminal no step changes it (the retention scheduler may only remove it).
C2_SingleTerminalWrite ==
  /\ [](\A j \in JobIds :
          /\ termWrites[j] <= 1
          /\ (kind[j] = "upload" /\ pc[j] = "done") => termWrites[j] = 1)
  /\ [][\A j \in JobIds :
          Terminal(jobs[j]) => jobs'[j] \in {jobs[j], NoJobEntry}]_vars

\* C2 witness: a job is terminal after its transcoder closed and its parser had
\* written progress updates.
C2_Witness ==
  \E j \in JobIds :
    /\ Terminal(jobs[j])
    /\ termWrites[j] = 1
    /\ ff[j].st = "closed"
    /\ ff[j].lastProgress > 0

\* C3: while a job is in progress (processing or compressing) its stored progress
\* never decreases from one step to the next, and it is exactly 100 on the
\* transition into complete.
C3_ProgressMonotone ==
  [][\A j \in JobIds :
       /\ (InProgress(jobs[j]) /\ InProgress(jobs'[j]))
            => jobs'[j].progress >= jobs[j].progress
       /\ (jobs[j].status # "complete" /\ jobs'[j].status = "complete")
            => jobs'[j].progress = 100]_vars

C5_AbsentFileFireStillClears ==
  [][\A t \in timers :
       (t.st = "enoent" /\ t \notin timers')
         => /\ jobs'[t.jobId] = NoJobEntry
            /\ fileDeletionTimers'[t.path] = NoTimer]_vars

\* C6: when a retrieval of a completed artifact ends successfully, no 20-minute
\* timer is pending for the artifact and exactly one 5-minute grace timer is.
C6_RetrievalLeavesOneGraceTimer ==
  [][\A r \in BagToSet(retrievals) :
       (r.st = "transfer" /\ r.completed
          /\ CopiesIn(r, retrievals') < CopiesIn(r, retrievals)
          /\ nextTimer' # nextTimer)
         => /\ \A t \in Pending(r.path)' : t.delay = 5
            /\ Cardinality(Pending(r.path)') = 1]_vars

\* C7: a job submitted with a preset name that is not in the catalog is processed
\* with the default preset's parameters and does not end in the failed state.
C7_UnknownPresetFallsBack ==
  \A j \in JobIds :
    (kind[j] # "none" /\ ~HasConfig(presetName[j]) /\ pc[j] = "done")
      => /\ jobs[j].status # "error"
         /\ response[j] # "error"
         /\ InvokedWith(j, presets["balanced"])

C9_WithinCeilingNeverTranscoded ==
  \A j \in JobIds :
    (kind[j] # "none" /\ HasConfig(presetName[j])
       /\ ~OverCeiling(size[j], Config(j)))
      => ~ffArgs[j].invoked

\* C9 (amended): in the remote-fetch pipeline an artifact within the selected
\* preset's ceiling is never handed to the transcoder and a successful request
\* has moved the fetched file to the output location; the direct-upload pipeline
\* hands every upload to the transcoder, whatever its size.
C9_OnlyRemoteSkipsWithinCeiling ==
  \A j \in JobIds :
    /\ (kind[j] = "remote" /\ HasConfig(presetName[j])
          /\ ~OverCeiling(size[j], Config(j)))
         => /\ ~ffArgs[j].invoked
            /\ ff[j].st = "none"
            /\ response[j] = "ok" => (~inFile[j] /\ faults[j] = {})
    /\ (kind[j] = "upload" /\ HasConfig(presetName[j])) => ffArgs[j].invoked

\* C9 witness: a fetched file of exactly the ceiling's size was renamed to the
\* output location without a transcoder run.
C9_Witness ==
  \E j \in JobIds :
    /\ kind[j] = "remote"
    /\ HasConfig(presetName[j])
    /\ response[j] = "ok"
    /\ size[j] = ParseInt(Config(j).maxSize) * MiB
    /\ ~ffArgs[j].invoked
    /\ outFile[OutputPath(j)] /\ ~inFile[j]

C11_HungProcessIsTerminated ==
  \A j \in JobIds :
    /\ (ff[j].st = "running") ~> (ff[j].st = "closed")
    /\ (pc[j] = "ffmpeg") ~> (pc[j] # "ffmpeg")

\* The handler of job j is past its transcoder run and awaits a filesystem call.
AfterTranscoder(j) ==
  kind[j] = "upload" /\ pc[j] \in {"statIn", "statOut", "unlinkIn", "catch"}

\* C12: once the transcoder run of an upload job has settled (exit, spawn error
\* or rejected start), the job eventually is complete or failed; the handler ends
\* by writing one of the two; and the job is complete only if the transcoder
\* exited with code 0 and no filesystem call of the pipeline failed.
C12_PipelineFailuresBecomeFailed ==
  /\ \A j \in JobIds : AfterTranscoder(j) ~> (pc[j] = "done" /\ Terminal(jobs[j]))
  /\ [][\A j \in JobIds :
          (AfterTranscoder(j) /\ pc'[j] = "done")
            => /\ Terminal(jobs'[j])
               /\ jobs'[j].status = "complete"
                    <=> (pc[j] = "unlinkIn" /\ faults'[j] = {})]_vars
  /\ [](\A j \in JobIds :
          jobs[j].status = "complete"
            => (faults[j] = {} /\ ff[j].st = "closed" /\ ff[j].opened))

\* C12 witness: the transcoder exited with code 0 and produced its output, a later
\* filesystem call of the pipeline failed, and the job is failed.
C12_Witness ==
  \E j \in JobIds :
    /\ kind[j] = "upload"
    /\ pc[j] = "done"
    /\ ff[j].st = "closed" /\ ff[j].opened
    /\ faults[j] \cap {"statInput", "statOutput", "unlinkInput"} # {}
    /\ jobs[j].status = "error"

\* C13: in the state where a job or request first reports success, a deletion
\* timer with the long default delay (20 minutes) is pending for its output path.
C13_SuccessArmsRetention ==
  [][\A j \in JobIds :
       (~ArtifactComplete(j) /\ ArtifactComplete(j)')
         => \E t \in Pending(OutputPath(j))' : t.delay = 20]_vars

\* C14: a job's registry entry is removed only by the step that ends a timer fire
\* for the job's own output path which has deleted the file; and every timer
\* fire that has deleted the file of a job ends with the job's entry removed
\* and the file still absent.
C14_EntryRemovedOnlyByFire ==
  [][/\ \A j \in JobIds :
          (jobs[j] # NoJobEntry /\ jobs'[j] = NoJobEntry)
            => \E t \in timers :
                 /\ t.jobId = j /\ t.path = OutputPath(j)
                 /\ t.st = "unlinked"
                 /\ t \notin timers'
     /\ \A t \in timers :
          (t.st = "unlinked" /\ t \notin timers')
            => /\ jobs'[t.jobId] = NoJobEntry
               /\ ~outFile'[t.path]]_vars

\* C14 witness: the 20-minute timer of a completed upload job has fired and
\* finished: the output file and the registry entry are both gone.
C14_Witness ==
  \E j \in JobIds :
    /\ kind[j] = "upload"
    /\ pc[j] = "done"
    /\ termWrites[j] = 1
    /\ faults[j] = {}
    /\ jobs[j] = NoJobEntry
    /\ ~outFile[OutputPath(j)]
    /\ timers = {}

\* C15: the timer table never holds a dangling reference and never loses a live
\* one: an entry of the table is the identity of a timer that has not finished
\* firing, and every pending timer (armed, not fired, not cancelled) of a path is
\* the one the table holds for that path.
C15_TimerTableMatchesTimers ==
  \A j \in JobIds :
    /\ fileDeletionTimers[OutputPath(j)] # NoTimer
         => \E t \in timers :
              t.path = OutputPath(j) /\ t.id = fileDeletionTimers[OutputPath(j)]
    /\ \A t \in Pending(OutputPath(j)) : fileDeletionTimers[OutputPath(j)] = t.id

\* C16: within one transcoder run every percentage the parser writes is larger
\* than the one it wrote before and at most 99, the written value is what the
\* job's snapshot then shows, and a job's progress is 100 only when its status
\* is complete.
C16_ParserNeverEmits100 ==
  /\ [][\A j \in JobIds :
          (ff[j].st = "running" /\ ff'[j].lastProgress # ff[j].lastProgress)
            => /\ ff'[j].lastProgress > ff[j].lastProgress
               /\ ff'[j].lastProgress <= 99
               /\ jobs[j] # NoJobEntry => jobs'[j].progress = ff'[j].lastProgress]_vars
  /\ [](\A j \in JobIds :
          /\ ff[j].lastProgress <= 99
          /\ jobs[j].progress = 100 => jobs[j].status = "complete")

\* C16 witness: the elapsed time of a marker exceeded the duration and the parser
\* wrote 99 to a job that is still compressing.
C16_Witness ==
  \E j \in JobIds :
    /\ jobs[j].status = "compressing"
    /\ jobs[j].progress = 99
    /\ ff[j].lastProgress = 99
    /\ ff[j].st = "running"
    /\ ff[j].duration < Seconds(<<0, 2, 0>>)

\* The number of jobs of the registry whose status is compressing.
CompressingJobs == Cardinality({j \in JobIds : jobs[j].status = "compressing"})

\* C17: the process table holds an entry for a job id exactly while the
\* transcoder subprocess spawned for that upload job is running; it holds none for
\* a job that is complete or failed; and its size never exceeds the number of
\* jobs in compressing status.
C17_ProcessTableMatchesRunning ==
  /\ \A j \in JobIds :
       /\ kind[j] = "upload" => (j \in activeProcesses <=> ff[j].st = "running")
       /\ Terminal(jobs[j]) => j \notin activeProcesses
  /\ Cardinality(activeProcesses) <= CompressingJobs

\* C18: no deletion timer of a path starts to fire while a retrieval of that
\* path's completed artifact is transferring (between the retrieval's cancel after
\* its existence check and the end of its transfer).
C18_NoFireDuringRetrieval ==
  [][\A t \in timers :
       (t.st = "pending" /\ [t EXCEPT !.st = "unlinking"] \in timers')
         => ~\E r \in BagToSet(retrievals) :
               r.st = "transfer" /\ r.completed /\ r.path = t.path]_vars

\* C19: every job that reaches complete eventually has its output file deleted
\* and its registry entry removed.
C19_CompleteArtifactReclaimed ==
  \A j \in JobIds :
    (jobs[j].status = "complete")
      ~> (jobs[j] = NoJobEntry /\ ~outFile[OutputPath(j)])

\* C20: a job that the registry reports as complete has its output file on disk,
\* except during the timer fire that has just deleted the file and is about to
\* remove the job's entry.
C20_CompleteJobHasArtifact ==
  \A j \in JobIds :
    jobs[j].status = "complete"
      => \/ outFile[OutputPath(j)]
         \/ \E t \in timers : t.path = OutputPath(j) /\ t.st = "unlinked"

\* C21: a retrieval is served only for an artifact whose pipeline has reported
\* success, and no deletion timer exists for the output path of a job that is
\* still in progress (processing or compressing).
C21_RetrievalOnlyForCompleteJobs ==
  /\ \A r \in BagToSet(retrievals) : r.st = "transfer" => r.completed
  /\ \A j \in JobIds :
       InProgress(jobs[j]) => ~\E t \in timers : t.path = OutputPath(j)

====
